---- MODULE Spec2Model ----
(***************************************************************************)
(* Model of snake/activations.py: the Snake activation module.            *)
(*                                                                         *)
(*   __init__(in_features, alpha = None, alpha_trainable = True)          *)
(*   forward(x) = x + (1.0/alpha) * pow(sin(x * alpha), 2)                 *)
(*                                                                         *)
(* Floating point numbers are modelled as fixed-point numbers with three   *)
(* decimals (a finite value v stands for v/Scale) together with the IEEE   *)
(* special values NaN, +Inf and -Inf.  Zero is unsigned.  Tensors are      *)
(* records of a shape and row-major data, and binary tensor operations     *)
(* follow the right-aligned broadcasting rule of the tensor engine.        *)
(***************************************************************************)
EXTENDS Integers, Sequences, FiniteSets, TLC

\* ------------------------------------------------------------------ bounds
MaxFeatures == 2
MaxRows == 3
MaxSteps == 1

\* ---------------------------------------------------------- scalar floats
Scale == 1000

Fin(n) == [k |-> "fin", v |-> n]
NaN == [k |-> "nan", v |-> 0]
Inf(s) == [k |-> "inf", v |-> s]

Whole(n) == Fin(n * Scale)

Abs(n) == IF n < 0 THEN -n ELSE n
Sign(n) == IF n < 0 THEN -1 ELSE IF n = 0 THEN 0 ELSE 1

\* p / q rounded to the nearest integer, halves away from zero (q > 0)
RoundDiv(p, q) == Sign(p) * ((2 * Abs(p) + q) \div (2 * q))

IsFinite(a) == a.k = "fin"

FAdd(a, b) ==
  IF a.k = "nan" \/ b.k = "nan" THEN NaN
  ELSE IF a.k = "inf" /\ b.k = "inf" THEN (IF a.v = b.v THEN a ELSE NaN)
  ELSE IF a.k = "inf" THEN a
  ELSE IF b.k = "inf" THEN b
  ELSE Fin(a.v + b.v)

FMul(a, b) ==
  IF a.k = "nan" \/ b.k = "nan" THEN NaN
  ELSE IF a.k = "inf" \/ b.k = "inf"
       THEN (IF Sign(a.v) * Sign(b.v) = 0 THEN NaN ELSE Inf(Sign(a.v) * Sign(b.v)))
  ELSE Fin(RoundDiv(a.v * b.v, Scale))

\* a plausible slip: a "safe" division that returns 0 for a zero divisor
FDivSafe(a, b) ==
  IF a.k = "nan" \/ b.k = "nan" THEN NaN
  ELSE IF a.k = "inf" /\ b.k = "inf" THEN NaN
  ELSE IF a.k = "inf" THEN Inf(a.v * (IF Sign(b.v) < 0 THEN -1 ELSE 1))
  ELSE IF b.k = "inf" THEN Fin(0)
  ELSE IF b.v = 0 THEN Fin(0)
  ELSE Fin(RoundDiv(a.v * Scale * Sign(b.v), Abs(b.v)))

FDiv(a, b) ==
  IF a.k = "nan" \/ b.k = "nan" THEN NaN
  ELSE IF a.k = "inf" /\ b.k = "inf" THEN NaN
  ELSE IF a.k = "inf" THEN Inf(a.v * (IF Sign(b.v) < 0 THEN -1 ELSE 1))
  ELSE IF b.k = "inf" THEN Fin(0)
  ELSE IF b.v = 0 THEN (IF a.v = 0 THEN NaN ELSE Inf(Sign(a.v)))
  ELSE Fin(RoundDiv(a.v * Scale * Sign(b.v), Abs(b.v)))

\* sin(k) for k = 1 .. 20 radians, in units of 1/Scale
SinTable ==
  << 841, 909, 141, -757, -959, -279, 657, 989, 412, -544,
     -1000, -537, 420, 991, 650, -288, -961, -751, 150, 913 >>

\* sin of a whole number of radians (every argument the model produces is
\* whole: inputs and parameter entries are whole numbers)
FSin(a) ==
  IF a.k # "fin" THEN NaN
  ELSE IF a.v = 0 THEN Fin(0)
  ELSE Fin(Sign(a.v) * SinTable[Abs(a.v) \div Scale])

RECURSIVE FPow(_, _)
FPow(a, e) == IF e = 0 THEN Whole(1) ELSE FMul(a, FPow(a, e - 1))

\* ----------------------------------------------------------------- tensors
Tensor(shape, data) == [err |-> "none", shape |-> shape, data |-> data]
Raised(e) == [err |-> e, shape |-> <<>>, data |-> <<>>]
Scalar(v) == Tensor(<<>>, <<v>>)
NoTensor == Raised("unset")

RECURSIVE Numel(_)
Numel(shape) == IF shape = <<>> THEN 1 ELSE Head(shape) * Numel(Tail(shape))

Max(a, b) == IF a >= b THEN a ELSE b

\* a slip: dimensions aligned from the left instead of from the right
DimLeft(s, i, r) == IF i <= Len(s) THEN s[i] ELSE 1

\* size of dimension i (1-based) of shape s seen as a shape of rank r:
\* shapes are aligned on their trailing dimensions, missing ones count as 1
Dim(s, i, r) == IF i <= r - Len(s) THEN 1 ELSE s[i - (r - Len(s))]

Min(a, b) == IF a <= b THEN a ELSE b

\* a slip: no compatibility test, unequal sizes are cut to the smaller one
BroadcastShapeZip(s1, s2) ==
  LET r == Max(Len(s1), Len(s2))
  IN  Tensor([i \in 1..r |-> IF Dim(s1, i, r) = 1 THEN Dim(s2, i, r)
                             ELSE IF Dim(s2, i, r) = 1 THEN Dim(s1, i, r)
                             ELSE Min(Dim(s1, i, r), Dim(s2, i, r))], <<>>)

\* the broadcast of two shapes, or the engine's RuntimeError
BroadcastShape(s1, s2) ==
  LET r == Max(Len(s1), Len(s2))
      ok == \A i \in 1..r :
               \/ Dim(s1, i, r) = Dim(s2, i, r)
               \/ Dim(s1, i, r) = 1
               \/ Dim(s2, i, r) = 1
  IN  IF ok
      THEN Tensor([i \in 1..r |-> IF Dim(s1, i, r) = 1 THEN Dim(s2, i, r)
                                                       ELSE Dim(s1, i, r)], <<>>)
      ELSE Raised("RuntimeError")

\* row-major stride of dimension i of shape s
Stride(s, i) == Numel(SubSeq(s, i + 1, Len(s)))

\* component i of the multi-index (0-based) of flat position f (0-based)
Coord(f, s, i) == (f \div Stride(s, i)) % s[i]

RECURSIVE SumTo(_, _)
SumTo(F, n) == IF n = 0 THEN 0 ELSE F[n] + SumTo(F, n - 1)

\* flat position (0-based) in a tensor of shape s of the element that is
\* broadcast to flat position f of shape out
SourceIndex(f, out, s) ==
  LET off == Len(out) - Len(s)
      term == [j \in 1..Len(s) |->
                 IF s[j] = 1 THEN 0 ELSE Coord(f, out, j + off) * Stride(s, j)]
  IN  SumTo(term, Len(s))

\* the scalar operation named op
FOp(op, a, b) ==
  IF op = "add" THEN FAdd(a, b)
  ELSE IF op = "mul" THEN FMul(a, b)
  ELSE FDiv(a, b)

\* elementwise binary operation with broadcasting
Elementwise2(op, t1, t2) ==
  IF t1.err # "none" THEN t1
  ELSE IF t2.err # "none" THEN t2
  ELSE LET b == BroadcastShape(t1.shape, t2.shape)
       IN  IF b.err # "none" THEN b
           ELSE Tensor(b.shape,
                  [f \in 1..Numel(b.shape) |->
                     FOp(op, t1.data[SourceIndex(f - 1, b.shape, t1.shape) + 1],
                             t2.data[SourceIndex(f - 1, b.shape, t2.shape) + 1])])

TAdd(t1, t2) == Elementwise2("add", t1, t2)
TMul(t1, t2) == Elementwise2("mul", t1, t2)
TDiv(t1, t2) == Elementwise2("div", t1, t2)

sin(t) ==
  IF t.err # "none" THEN t
  ELSE Tensor(t.shape, [f \in 1..Len(t.data) |-> FSin(t.data[f])])

pow(t, e) ==
  IF t.err # "none" THEN t
  ELSE Tensor(t.shape, [f \in 1..Len(t.data) |-> FPow(t.data[f], e)])

\* ------------------------------------------------------- engine services
\* in_features as passed by the caller: a Python int or a tuple of ints
IntArg(n) == [kind |-> "int", v |-> <<n>>]
TupleArg(s) == [kind |-> "tuple", v |-> s]
NoArg == [kind |-> "none", v |-> <<>>]

\* a slip: an argument check that rejects every non-positive size
onesStrict(size) ==
  IF size.kind = "int"
  THEN (IF size.v[1] <= 0 THEN Raised("RuntimeError")
        ELSE Tensor(size.v, [f \in 1..size.v[1] |-> Whole(1)]))
  ELSE Tensor(size.v, [f \in 1..Numel(size.v) |-> Whole(1)])

\* torch.ones(size): a negative dimension is a RuntimeError of the engine
ones(size) ==
  IF size.kind = "int"
  THEN (IF size.v[1] < 0 THEN Raised("RuntimeError")
        ELSE Tensor(size.v, [f \in 1..size.v[1] |-> Whole(1)]))
  ELSE Tensor(size.v, [f \in 1..Numel(size.v) |-> Whole(1)])

\* torch.Size(sample_shape): an int is not iterable
TorchSize(sample_shape) ==
  IF sample_shape.kind = "int" THEN Raised("TypeError")
  ELSE Tensor(sample_shape.v, <<>>)

\* Exponential(torch.tensor([0.1])): the rate, a tensor of shape (1,)
rate == Tensor(<<1>>, <<Fin(100)>>)

\* values of the standard exponential draw, in units of 1/Scale; the
\* sampler returns them divided by the rate
RawSamples == {100, 200}

\* shape of m.sample(sample_shape): sample_shape + batch_shape
SampleShape(sample_shape) ==
  LET sz == TorchSize(sample_shape)
  IN  IF sz.err # "none" THEN sz ELSE Tensor(sz.shape \o rate.shape, <<>>)

\* the draws the sampler can make for this sample_shape
RawDraws(sample_shape) ==
  LET sh == SampleShape(sample_shape)
  IN  IF sh.err # "none" THEN {<<>>}
      ELSE [1..Numel(sh.shape) -> {Fin(r) : r \in RawSamples}]

\* m.sample(sample_shape) with the standard exponential draws raw
sample(sample_shape, raw) ==
  LET sh == SampleShape(sample_shape)
  IN  IF sh.err # "none" THEN sh ELSE TDiv(Tensor(sh.shape, raw), rate)

\* ------------------------------------------------------------------- state
VARIABLES
  pc,            \* "new": before __init__, "ready": constructed, "raised"
  args,          \* the arguments of the constructor call
  in_features,   \* self.in_features
  alpha,         \* self.alpha, the parameter tensor
  requires_grad, \* self.alpha.requires_grad, the flag the engine consults
  requiresGrad,  \* self.alpha.requiresGrad, the attribute line 50 writes
  sampled,       \* number of calls of the exponential sampler
  steps,         \* optimizer steps taken
  call           \* the last call made on the instance and what it returned

vars == <<pc, args, in_features, alpha, requires_grad, requiresGrad,
          sampled, steps, call>>

NoCall == [op |-> "none", x |-> NoTensor, ret |-> NoTensor]

\* alpha argument: None or a whole number
AlphaGiven(c) == [given |-> TRUE, v |-> Whole(c)]
AlphaNone == [given |-> FALSE, v |-> Whole(0)]

InFeaturesArgs ==
  {IntArg(n) : n \in -1..MaxFeatures} \cup {TupleArg(<<n>>) : n \in 1..2}

AlphaArgs == {AlphaNone} \cup {AlphaGiven(c) : c \in 0..2}

Init ==
  /\ pc = "new"
  /\ args \in [in_features : InFeaturesArgs, alpha : AlphaArgs,
               alpha_trainable : BOOLEAN]
  /\ in_features = NoArg
  /\ alpha = NoTensor
  /\ requires_grad = TRUE
  /\ requiresGrad = <<>>
  /\ sampled = 0
  /\ steps = 0
  /\ call = NoCall

\* a slip: "if alpha:" instead of "if alpha is not None:"
InitAlphaTruthy(a, raw) ==
  IF a.alpha.given /\ a.alpha.v # Whole(0)
  THEN TMul(ones(a.in_features), Scalar(a.alpha.v))
  ELSE sample(a.in_features, raw)

\* lines 44-48: the initial value of the parameter
InitAlpha(a, raw) ==
  IF a.alpha.given
  THEN TMul(ones(a.in_features), Scalar(a.alpha.v))
  ELSE sample(a.in_features, raw)

\* Snake.__init__: line 41 records in_features before the parameter is
\* built, so the object keeps it also when line 45 or line 48 raises
Snake_init ==
  /\ pc = "new"
  /\ in_features' = args.in_features
  /\ \E raw \in (IF args.alpha.given THEN {<<>>} ELSE RawDraws(args.in_features)) :
       LET t == InitAlpha(args, raw)
       IN  \/ /\ t.err = "none"
              /\ pc' = "ready"
              /\ alpha' = t
              /\ requires_grad' = TRUE
              /\ requiresGrad' = <<args.alpha_trainable>>
              /\ call' = [op |-> "init", x |-> NoTensor, ret |-> NoTensor]
           \/ /\ t.err # "none"
              /\ pc' = "raised"
              /\ call' = [op |-> "init", x |-> NoTensor, ret |-> t]
              /\ UNCHANGED <<alpha, requires_grad, requiresGrad>>
  /\ sampled' = IF args.alpha.given THEN sampled ELSE sampled + 1
  /\ UNCHANGED <<args, steps>>

\* ---------------------------------------------------------------- forward
\* a slip: the square is forgotten
forwardNoPow(x, a) ==
  TAdd(x, TMul(TDiv(Scalar(Whole(1)), a), sin(TMul(x, a))))

\* line 60: x + (1.0/self.alpha) * pow(sin(x * self.alpha), 2)
forward(x, a) ==
  TAdd(x, TMul(TDiv(Scalar(Whole(1)), a), pow(sin(TMul(x, a)), 2)))

MaxCols == MaxFeatures + 1

XShapes ==
  {<<>>} \cup {<<c>> : c \in 0..MaxCols} \cup {<<MaxRows, c>> : c \in 1..MaxCols}

XVals == << Whole(0), Whole(1), Whole(-2), Inf(1) >>

\* the input data tried for a tensor of n elements: all zeros and the
\* cyclic runs through XVals that start at 1 and at -2
XData(n) ==
  {[j \in 1..n |-> Whole(0)]}
    \cup {[j \in 1..n |-> XVals[((s + j - 2) % Len(XVals)) + 1]] : s \in {2, 3}}

Inputs == UNION {{Tensor(sh, d) : d \in XData(Numel(sh))} : sh \in XShapes}

\* a slip: an in-place operation on the parameter
ForwardInPlace(x) ==
  /\ pc = "ready"
  /\ call' = [op |-> "forward", x |-> x, ret |-> forward(x, alpha)]
  /\ alpha' = TMul(alpha, alpha)
  /\ UNCHANGED <<pc, args, in_features, requires_grad, requiresGrad,
                 sampled, steps>>

\* a call of the module on x
Forward(x) ==
  /\ pc = "ready"
  /\ call' = [op |-> "forward", x |-> x, ret |-> forward(x, alpha)]
  /\ UNCHANGED <<pc, args, in_features, alpha, requires_grad, requiresGrad,
                 sampled, steps>>

\* -------------------------------------------------------------- optimizer
\* the gradients tried: a constant one and an alternating one
Grads(n) ==
  {[j \in 1..n |-> Whole(1)],
   [j \in 1..n |-> IF j % 2 = 1 THEN Whole(1) ELSE Whole(-1)]}

\* one update of the external optimizer with learning rate 1: a parameter
\* is updated when its requires_grad flag is set
OptimizerStep(g) ==
  /\ pc = "ready"
  /\ steps < MaxSteps
  /\ steps' = steps + 1
  /\ alpha' = IF requires_grad
              THEN Tensor(alpha.shape,
                     [f \in 1..Len(alpha.data) |->
                        FAdd(alpha.data[f], FMul(Whole(-1), g[f]))])
              ELSE alpha
  /\ call' = [op |-> "step", x |-> NoTensor, ret |-> NoTensor]
  /\ UNCHANGED <<pc, args, in_features, requires_grad, requiresGrad, sampled>>

Next ==
  \/ Snake_init
  \/ \E x \in Inputs : Forward(x)
  \/ \E g \in Grads(Len(alpha.data)) : OptimizerStep(g)

Spec == Init /\ [][Next]_vars

\* ------------------------------------------------------------ properties
IntFeatures == args.in_features.kind = "int"
N == args.in_features.v[1]
Constructed == pc # "new"
Applied == pc = "ready" /\ call.op = "forward"
Instance == <<pc, args, in_features, alpha, requires_grad, requiresGrad>>

\* the parameter is a vector and x has a trailing dimension
VectorCase(x, a) == Len(a.shape) = 1 /\ Len(x.shape) >= 1
Trailing(x) == x.shape[Len(x.shape)]

\* the reference scalar computation x + (1/a) * sin(a*x)^2
RefSnake(xv, av) ==
  LET s == FSin(FMul(av, xv))
  IN  FAdd(xv, FMul(FDiv(Whole(1), av), FMul(s, s)))

\* C1: with alpha_trainable = false an optimizer step leaves every entry
\* of the parameter unchanged.
C1_FrozenWhenNotTrainable ==
  [][(pc = "ready" /\ ~args.alpha_trainable /\ call'.op = "step")
       => alpha' = alpha]_vars

\* C2: construction with an integer in_features = n > 0 and no alpha
\* succeeds and yields a 1-dimensional parameter of n strictly positive
\* entries.
C2_RandomInitVector ==
  (Constructed /\ IntFeatures /\ N > 0 /\ ~args.alpha.given /\ steps = 0)
    => /\ pc = "ready"
       /\ alpha.shape = <<N>>
       /\ \A f \in 1..Len(alpha.data) :
            alpha.data[f].k = "fin" /\ alpha.data[f].v > 0

\* C3: construction with an integer in_features = n > 0 and alpha = c
\* (zero included) yields a parameter of exactly n entries, all equal to c,
\* and the sampler is not consulted.
C3_ConstantInit ==
  (Constructed /\ IntFeatures /\ N > 0 /\ args.alpha.given /\ steps = 0)
    => /\ pc = "ready"
       /\ alpha.shape = <<N>>
       /\ Len(alpha.data) = N
       /\ \A f \in 1..N : alpha.data[f] = args.alpha.v
       /\ sampled = 0

C3_Witness ==
  /\ pc = "ready" /\ call.op = "init"
  /\ IntFeatures /\ N > 1
  /\ args.alpha.given /\ args.alpha.v = Whole(0)

\* C4 as stated: every accepted input, a trailing dimension of size 1
\* included, gives an output of the shape of the input.
C4_SameShapeAsInput ==
  (Applied /\ VectorCase(call.x, alpha) /\ call.ret.err = "none")
    => call.ret.shape = call.x.shape

\* C4 amended: when the trailing dimension of x equals len(a), or len(a)
\* is 1, the call succeeds with an output of the shape of x; when the
\* trailing dimension is 1 and len(a) > 1 the output has the shape of x
\* with the trailing dimension replaced by len(a).
C4_ShapeLaw ==
  (Applied /\ VectorCase(call.x, alpha))
    => LET n == Len(alpha.data)
           r == Len(call.x.shape)
       IN  /\ (Trailing(call.x) = n \/ n = 1)
                => /\ call.ret.err = "none"
                   /\ call.ret.shape = call.x.shape
           /\ (Trailing(call.x) = 1 /\ n # 1)
                => /\ call.ret.err = "none"
                   /\ call.ret.shape = [i \in 1..r |-> IF i = r THEN n ELSE call.x.shape[i]]

C4_Witness ==
  /\ Applied /\ VectorCase(call.x, alpha)
  /\ Len(call.x.shape) = 2
  /\ Trailing(call.x) = Len(alpha.data)
  /\ Len(alpha.data) = 2
  /\ call.ret.shape = call.x.shape

\* C5: for x with trailing dimension in_features and a parameter without
\* zeros, the output element at (..., i) is x + (1/a[i]) * sin(a[i]*x)^2 of
\* the input element at (..., i); with a all ones and x all zeros the
\* output is all zeros.
C5_Elementwise ==
  (/\ Applied /\ VectorCase(call.x, alpha)
   /\ Trailing(call.x) = Len(alpha.data)
   /\ \A i \in 1..Len(alpha.data) : alpha.data[i] # Whole(0))
    => LET n == Len(alpha.data)
       IN  /\ call.ret.err = "none"
           /\ Len(call.ret.data) = Len(call.x.data)
           /\ \A f \in 1..Len(call.x.data) :
                call.ret.data[f] = RefSnake(call.x.data[f], alpha.data[((f - 1) % n) + 1])
           /\ ((\A i \in 1..n : alpha.data[i] = Whole(1))
                 /\ (\A f \in 1..Len(call.x.data) : call.x.data[f] = Whole(0)))
                => \A f \in 1..Len(call.ret.data) : call.ret.data[f] = Whole(0)

C5_Witness ==
  /\ Applied /\ call.x.shape = <<MaxRows, 2>> /\ alpha.shape = <<2>>
  /\ alpha.data[1] # Whole(0) /\ alpha.data[2] # Whole(0)
  /\ alpha.data[1] # alpha.data[2]
  /\ call.x.data[1] = Whole(1) /\ call.x.data[2] = Whole(-2)
  /\ call.ret.err = "none"
  /\ call.ret.data[1] # call.x.data[1] /\ IsFinite(call.ret.data[2])

\* C6: a call of apply, failing or not, leaves the parameter, its flags and
\* in_features unchanged; two consecutive calls with the same x return the
\* same output; after construction only an optimizer step changes a.
C6_ApplyIsPure ==
  [][/\ (call'.op = "forward" /\ call' # call) => Instance' = Instance
     /\ (Applied /\ call'.op = "forward" /\ call'.x = call.x) => call'.ret = call.ret
     /\ (pc = "ready" /\ alpha' # alpha) => call'.op = "step"]_vars

C6_Witness ==
  /\ Applied /\ steps = 0
  /\ call.ret.err = "none"
  /\ Len(alpha.data) = 2
  /\ \A f \in 1..2 : alpha.data[f] = Whole(2)

\* C7: an output element computed from a parameter entry that is exactly 0
\* is never an ordinary finite value, whatever the input element.
C7_ZeroAlphaNotFinite ==
  (Applied /\ call.ret.err = "none")
    => \A f \in 1..Len(call.ret.data) :
         alpha.data[SourceIndex(f - 1, call.ret.shape, alpha.shape) + 1] = Whole(0)
           => ~IsFinite(call.ret.data[f])

C7_Witness ==
  /\ Applied /\ call.ret.err = "none"
  /\ args.alpha.given /\ args.alpha.v = Whole(0) /\ steps = 0
  /\ Len(alpha.data) = 2 /\ Len(call.ret.data) >= 2
  /\ \E f \in 1..Len(call.x.data) : call.x.data[f] = Whole(0)
  /\ \E f \in 1..Len(call.x.data) : call.x.data[f] = Whole(1)
  /\ \A f \in 1..Len(call.ret.data) : call.ret.data[f] = NaN

\* C8: when the trailing dimension of x is neither len(a) nor 1 and len(a)
\* is not 1, apply raises the shape error, returns no output and changes
\* nothing.
C8_ShapeMismatchRaises ==
  [][(/\ pc = "ready" /\ call'.op = "forward" /\ call' # call
      /\ VectorCase(call'.x, alpha)
      /\ Trailing(call'.x) # Len(alpha.data)
      /\ Trailing(call'.x) # 1
      /\ Len(alpha.data) # 1)
       => /\ call'.ret.err = "RuntimeError"
          /\ call'.ret.data = <<>>
          /\ Instance' = Instance]_vars

C8_Witness ==
  /\ Applied /\ VectorCase(call.x, alpha)
  /\ Len(alpha.data) = 2 /\ Trailing(call.x) = 3
  /\ call.ret.err = "RuntimeError"

\* C9 as stated: construction with a provided alpha raises no error for
\* any non-positive integer in_features and records in_features as given.
C9_NoErrorNonPositive ==
  (Constructed /\ IntFeatures /\ N <= 0 /\ args.alpha.given)
    => pc = "ready" /\ in_features = args.in_features

\* C9 amended: with a provided alpha, in_features = 0 constructs an
\* instance with in_features recorded and an empty parameter; a negative
\* in_features makes the tensor allocation raise: the constructor fails
\* after recording in_features and before any parameter is created.
C9_ZeroAcceptedNegativeRaises ==
  (Constructed /\ IntFeatures /\ args.alpha.given)
    => /\ N = 0 => /\ pc = "ready"
                   /\ in_features = args.in_features
                   /\ alpha.shape = <<0>> /\ alpha.data = <<>>
       /\ N < 0 => /\ pc = "raised"
                   /\ call.ret.err = "RuntimeError"
                   /\ in_features = args.in_features
                   /\ alpha = NoTensor /\ requiresGrad = <<>>

C9_Witness ==
  pc = "ready" /\ IntFeatures /\ N = 0 /\ args.alpha.given /\ alpha.data = <<>>

\* C10: constructed without alpha, every entry of the parameter is 1.
C10_DefaultAlphaIsOne ==
  (Constructed /\ ~args.alpha.given /\ steps = 0)
    => /\ pc = "ready"
       /\ \A f \in 1..Len(alpha.data) : alpha.data[f] = Whole(1)

\* model sanity: every parameter entry is a whole number, so sin is only
\* taken of whole numbers
WholeEntries ==
  pc = "ready" => \A f \in 1..Len(alpha.data) :
                    alpha.data[f].k = "fin" /\ alpha.data[f].v % Scale = 0

====
